---- MODULE Spec2Model ----
(***************************************************************************)
(* A model of easy_cache/core.py: the tag-aware cache proxy, the plain and *)
(* the tag/prefix-aware memoizing decorators, the call metadata, the       *)
(* setters of the process-wide globals and the thread-local backend        *)
(* registry, with the interleavings of concurrent callers.                 *)
(*                                                                         *)
(* Representation of Python values:                                        *)
(*   text            a sequence of one-character strings, <<"t","a","g">>  *)
(*   dict            a function with a finite domain                       *)
(*   tagged entry    the record [value |-> v, tags |-> snapshot]           *)
(*   timestamp       an integer (microseconds)                             *)
(*   sentinel        a record [name |-> "NOT_FOUND"]                       *)
(*   opaque object   a record [obj |-> "v"]                                *)
(*   str-or-list     [kind |-> "str", s |-> text] or                       *)
(*                   [kind |-> "list", items |-> set of texts]             *)
(***************************************************************************)
EXTENDS Integers, Sequences, FiniteSets, TLC

VARIABLES
    CACHE_KEY_DELIMITER,  \* module global, core.py:48
    TAG_KEY_PREFIX,       \* module global, core.py:49
    cache,                \* the contents of the backend: a dict key -> stored value
    now,                  \* the last reading of the wall clock, in microseconds
    ret,                  \* the last operation: its inputs and what it returned
    deco,                 \* the decorator object: its configuration and _cache_instance
    LAZY_MODE,            \* module global, core.py:52
    caches,               \* CacheHandler._caches: per thread, a dict alias -> backend
    stores,               \* per backend handle, the keys written to that backend
    local                 \* per caller in the middle of an operation: its position and locals

vars == <<CACHE_KEY_DELIMITER, TAG_KEY_PREFIX, cache, now, ret, deco, LAZY_MODE,
          caches, stores, local>>

\* The largest clock reading of a run.
MaxTime == 1

(***************************************************************************)
(* Sentinels and the inputs the actions draw from.                         *)
(***************************************************************************)
NOT_FOUND == [name |-> "NOT_FOUND"]

\* An opaque Python object (a cached value, a default).
PyObj(name) == [obj |-> name]

PrimaryKeys == {<<"k">>, <<"m">>}
Values == {PyObj("v")}
Default == PyObj("d")
TagNames == {<<"a">>, <<"b">>}

PyList(items) == [kind |-> "list", items |-> items]
PyStr(s) == [kind |-> "str", s |-> s]

\* The tag collections handed to the proxy: every list over TagNames, the
\* empty one included.
TagLists == {PyList(S) : S \in SUBSET TagNames}

\* `for _ in obj`: a text yields its characters, a collection its elements.
PyIter(obj) ==
    IF obj.kind = "str"
    THEN {<<obj.s[i]>> : i \in DOMAIN obj.s}
    ELSE obj.items

(***************************************************************************)
(* dict helpers and the backend contract (get, get_many, set_many, delete) *)
(***************************************************************************)
EmptyDict == <<>>

\* d.update(e)
DictUpdate(d, e) ==
    [k \in DOMAIN d \cup DOMAIN e |-> IF k \in DOMAIN e THEN e[k] ELSE d[k]]

backend_get(c, key, default) == IF key \in DOMAIN c THEN c[key] ELSE default

backend_get_many(c, keys) == [k \in keys \cap DOMAIN c |-> c[k]]

backend_set_many(c, mapping) == DictUpdate(c, mapping)

backend_set(c, key, value) == DictUpdate(c, key :> value)

backend_delete(c, key) == [k \in DOMAIN c \ {key} |-> c[k]]

(***************************************************************************)
(* Key utilities.                                                          *)
(***************************************************************************)
RECURSIVE Join(_, _)
Join(parts, delimiter) ==
    IF Len(parts) = 0 THEN <<>>
    ELSE IF Len(parts) = 1 THEN parts[1]
    ELSE parts[1] \o delimiter \o Join(Tail(parts), delimiter)

\* parts is a sequence of texts; a single text is the one part.
create_cache_key(delimiter, parts) == Join(parts, delimiter)

create_tag_cache_key(delimiter, prefix, part) ==
    create_cache_key(delimiter, <<prefix, part>>)

\* The key of tag `name` under the current globals.
TagKey(name) == create_tag_cache_key(CACHE_KEY_DELIMITER, TAG_KEY_PREFIX, name)

\* int(time() * 1000000): the wall clock does not go back in a run, and two
\* readings may fall in the same microsecond.
get_timestamp(t) == t \in now..MaxTime

\* hash(frozenset(dictionary.items())): the hash is a function of the
\* frozenset of items; it is kept as that frozenset.
hash_dict(dictionary) == {<<k, dictionary[k]>> : k \in DOMAIN dictionary}

(***************************************************************************)
(* TaggedCacheProxy                                                        *)
(***************************************************************************)
\* The namespaced tag keys of a tags argument.
TagKeysOf(tags) == {TagKey(t) : t \in PyIter(tags)}

\* The tag keys make_value finds absent at its bulk read.
MissedTags(c, tags) == TagKeysOf(tags) \ DOMAIN backend_get_many(c, TagKeysOf(tags))

\* make_value with the missed tag keys left out of the top-level mapping.
make_value_no_new_tags(c, key, value, tags, stamps) ==
    LET tag_keys  == TagKeysOf(tags)
        tags_dict == backend_get_many(c, tag_keys)
        data      == [tk \in {x \in tag_keys : x \notin DOMAIN tags_dict} |-> stamps[tk]]
        snapshot  == DictUpdate(tags_dict, data)
    IN  key :> [value |-> value, tags |-> snapshot]

\* stamps[tag_key] is the get_timestamp() reading taken for a missed tag key.
make_value(c, key, value, tags, stamps) ==
    LET tag_keys  == TagKeysOf(tags)
        tags_dict == backend_get_many(c, tag_keys)
        data      == [tk \in {x \in tag_keys : x \notin DOMAIN tags_dict} |-> stamps[tk]]
        snapshot  == DictUpdate(tags_dict, data)
    IN  DictUpdate(data, key :> [value |-> value, tags |-> snapshot])

Proxy_get(c, key, default) ==
    LET value == backend_get(c, key, NOT_FOUND)
    IN  IF value = NOT_FOUND THEN default
        ELSE LET tags_dict == value.tags
             IN  IF DOMAIN tags_dict = {} THEN value
                 ELSE LET cached_tags_dict == backend_get_many(c, DOMAIN tags_dict)
                      IN  IF hash_dict(cached_tags_dict) # hash_dict(tags_dict)
                          THEN default
                          ELSE value.value

\* The mapping invalidate hands to set_many: one timestamp for every tag.
InvalidateMapping(tags, ts) == [tk \in TagKeysOf(tags) |-> ts]

\* invalidate that also drops the entries stamped with one of the tags.
Proxy_invalidate_purging(c, tags, ts) ==
    LET kept == {k \in DOMAIN c : k \notin PrimaryKeys
                                  \/ DOMAIN c[k].tags \cap TagKeysOf(tags) = {}}
    IN  backend_set_many([k \in kept |-> c[k]], InvalidateMapping(tags, ts))

Proxy_invalidate(c, tags, ts) == backend_set_many(c, InvalidateMapping(tags, ts))

(***************************************************************************)
(* The proxy over one backend: set, get, invalidate, and the backend       *)
(* dropping a key (delete, expiry, eviction).                              *)
(***************************************************************************)
Max(S) == CHOOSE x \in S : \A y \in S : y <= x

Globals == <<CACHE_KEY_DELIMITER, TAG_KEY_PREFIX, LAZY_MODE>>

Registry == <<caches, stores>>

None == [name |-> "None"]

\* The module as imported: the globals at their defaults, no thread has touched
\* the registry.
InitGlobals ==
    /\ CACHE_KEY_DELIMITER = <<":">>
    /\ TAG_KEY_PREFIX = <<"t", "a", "g">>
    /\ caches = EmptyDict
    /\ stores = EmptyDict
    /\ local = EmptyDict

Init ==
    /\ InitGlobals
    /\ LAZY_MODE = FALSE
    /\ cache = EmptyDict
    /\ now = 0
    /\ ret = [op |-> "init"]
    /\ deco = None

Set(key, value, tags) ==
    \E stamps \in [MissedTags(cache, tags) -> now..MaxTime] :
        LET value_dict == make_value(cache, key, value, tags, stamps)
        IN  /\ \A tk \in DOMAIN stamps : get_timestamp(stamps[tk])
            /\ cache' = backend_set_many(cache, value_dict)
            /\ now' = Max({now} \cup {stamps[tk] : tk \in DOMAIN stamps})
            /\ ret' = [op |-> "set", key |-> key, value |-> value, tags |-> tags,
                       data |-> value_dict]
            /\ UNCHANGED <<Globals, Registry, local, deco>>

Get(key, default) ==
    /\ ret' = [op |-> "get", key |-> key, default |-> default,
               result |-> Proxy_get(cache, key, default)]
    /\ UNCHANGED <<Globals, Registry, local, deco, cache, now>>

Invalidate(tags) ==
    \E ts \in now..MaxTime :
        /\ get_timestamp(ts)
        /\ cache' = Proxy_invalidate(cache, tags, ts)
        /\ now' = ts
        /\ ret' = [op |-> "invalidate", tags |-> tags, ts |-> ts]
        /\ UNCHANGED <<Globals, Registry, local, deco>>

Delete(key) ==
    /\ key \in DOMAIN cache
    /\ cache' = backend_delete(cache, key)
    /\ ret' = [op |-> "delete", key |-> key]
    /\ UNCHANGED <<Globals, Registry, local, deco, now>>

Next ==
    \/ \E key \in PrimaryKeys, value \in Values, tags \in TagLists : Set(key, value, tags)
    \/ \E key \in PrimaryKeys : Get(key, Default)
    \/ \E tags \in TagLists : Invalidate(tags)
    \/ \E key \in DOMAIN cache : Delete(key)

Spec == Init /\ [][Next]_vars

(***************************************************************************)
(* Claims about the proxy, checked under Spec.                             *)
(***************************************************************************)
\* The backend's current values of the snapshot's tag keys are the snapshot.
SnapshotCurrent(c, snapshot) ==
    \A tk \in DOMAIN snapshot : tk \in DOMAIN c /\ c[tk] = snapshot[tk]

\* C1 (as stated): a get on an entry written with a tag snapshot returns the
\* entry's `value` field exactly when the backend's current values of the
\* snapshot's tag keys equal the snapshot, and the default otherwise, for every
\* snapshot.
C1_GetValidIffSnapshotCurrent ==
    (ret.op = "get" /\ ret.key \in DOMAIN cache) =>
        ret.result = IF SnapshotCurrent(cache, cache[ret.key].tags)
                     THEN cache[ret.key].value
                     ELSE ret.default

\* C2 (as stated): an entry whose snapshot is the single tag t1 is returned
\* while the backend's key of t1 holds the recorded timestamp; and once an
\* invalidate of a tag list containing a tag of an entry's snapshot has run,
\* a get of that entry's key returns the default although the raw entry under
\* the key is the one that was written.
C2_InvalidateMakesStale ==
    [][ /\ \A k \in PrimaryKeys \cap DOMAIN cache :
              (Cardinality(DOMAIN cache[k].tags) = 1
               /\ SnapshotCurrent(cache, cache[k].tags))
                  => Proxy_get(cache, k, Default) = cache[k].value
        /\ ret'.op = "invalidate" =>
              \A k \in PrimaryKeys \cap DOMAIN cache :
                  DOMAIN cache[k].tags \cap TagKeysOf(ret'.tags) # {} =>
                      /\ k \in DOMAIN cache' /\ cache'[k] = cache[k]
                      /\ Proxy_get(cache', k, Default) = Default
      ]_vars

\* C8: invalidate(tag_names) writes one timestamp, read from the clock at the
\* call, to the namespaced tag keys of tag_names, and changes no other key of
\* the backend: every entry, the ones stamped with those tags included, and
\* every other tag key is left as it was.
C8_InvalidateWritesOnlyItsTagKeys ==
    [][ ret'.op = "invalidate" =>
            LET written == TagKeysOf(ret'.tags)
            IN  /\ DOMAIN cache' = DOMAIN cache \cup written
                /\ \A k \in DOMAIN cache \ written : cache'[k] = cache[k]
                /\ \A tk \in written : cache'[tk] = ret'.ts
                /\ ret'.ts >= now
      ]_vars

\* An invalidate has run on a backend holding an entry stamped with one of its
\* tags, and a tag key that is not one of its tags.
C8_Witness ==
    /\ ret.op = "invalidate"
    /\ \E k \in PrimaryKeys \cap DOMAIN cache :
           DOMAIN cache[k].tags \cap TagKeysOf(ret.tags) # {}
    /\ \E tk \in DOMAIN cache : tk \notin PrimaryKeys /\ tk \notin TagKeysOf(ret.tags)

\* C9: the mapping make_value returns has as its top-level keys `key` and the
\* namespaced tag keys absent from the backend; the entry under `key` is
\* {value, tags} with a snapshot over exactly the namespaced tag_names, a
\* present tag with the backend's timestamp and an absent tag with the
\* timestamp emitted for it at top level; set writes that mapping and so
\* rewrites no tag key that was present.
C9_MakeValueShape ==
    [][ ret'.op = "set" =>
            LET data     == ret'.data
                key      == ret'.key
                tag_keys == TagKeysOf(ret'.tags)
                absent   == tag_keys \ DOMAIN cache
            IN  /\ DOMAIN data = {key} \cup absent
                /\ DOMAIN data[key] = {"value", "tags"}
                /\ data[key].value = ret'.value
                /\ DOMAIN data[key].tags = tag_keys
                /\ \A tk \in tag_keys \ absent : data[key].tags[tk] = cache[tk]
                /\ \A tk \in absent : data[key].tags[tk] = data[tk]
                /\ DOMAIN cache' = DOMAIN cache \cup DOMAIN data
                /\ \A k \in DOMAIN data : cache'[k] = data[k]
                /\ \A k \in DOMAIN cache \ DOMAIN data : cache'[k] = cache[k]
      ]_vars

\* A set has run with one tag that was present (in the snapshot, not at top
\* level) and one that was absent (emitted at top level).
C9_Witness ==
    /\ ret.op = "set"
    /\ \E tk \in DOMAIN ret.data[ret.key].tags : tk \notin DOMAIN ret.data
    /\ \E tk \in DOMAIN ret.data : tk # ret.key

\* C19 (as stated): proxy.set(k, v, tags=S) directly followed by
\* proxy.get(k, d) returns v, for every tag collection S, the empty one
\* included: not the stored wrapper and not d.
C19_SetGetRoundTrip ==
    [][ (ret.op = "set" /\ ret'.op = "get" /\ ret'.key = ret.key) =>
            ret'.result = ret.value ]_vars

\* C20 (as stated): once an invalidate of a tag has completed, an entry whose
\* snapshot recorded that tag before the invalidation is not returned as
\* valid again; in particular the get that directly follows the invalidate
\* returns the default for it.
C20_NoResurrection ==
    [][ (/\ ret.op = "invalidate"
         /\ ret'.op = "get"
         /\ ret'.key \in DOMAIN cache
         /\ DOMAIN cache[ret'.key].tags \cap TagKeysOf(ret.tags) # {}) =>
            ret'.result = ret'.default ]_vars

(***************************************************************************)
(* The decorators: Cached and TaggedCached around a function f(x), called  *)
(* with its one argument given positionally, over one backend handed to    *)
(* the decorator as cache_instance.                                        *)
(***************************************************************************)
NOT_SET == [name |-> "NOT_SET"]

\* What the wrapped function does when it is run: it returns a value or raises.
\* Two values tell a cached result from a recomputed one under the plain
\* decorator; the tag logic never looks at the value, one is drawn there.
FunctionValues == {PyObj("v"), PyObj("w")}
Raise == [exc |-> "Error"]
Outcomes(d) ==
    IF d.cls = "Cached" THEN FunctionValues \cup {Raise} ELSE {PyObj("v"), Raise}
ValueError == [exc |-> "ValueError"]

\* The values of the argument x: texts.
ArgValues == {<<"0">>, <<"1">>}

\* The wrapped function: its dotted path and inspect.getargspec(function).args.
F == [path |-> <<"f">>, args |-> <<"x">>]

Backend == [injected |-> "backend"]

\* A template is a text whose "{x}" token is the placeholder of parameter x.
DEFAULT_CACHE_ALIAS == "default-cache-tools"

Decorator(cls, tags, prefix) ==
    [cls |-> cls, function |-> F, cache_key |-> None, tags |-> tags,
     prefix |-> prefix, _cache_instance |-> Backend,
     _cache_alias |-> DEFAULT_CACHE_ALIAS]

PlainDecorator == Decorator("Cached", PyList({}), None)
TextTagDecorator == Decorator("TaggedCached", PyStr(<<"t", "u">>), None)
ListTagDecorator == Decorator("TaggedCached", PyList({<<"a">>, <<"b", "{x}">>}), None)
PrefixDecorator == Decorator("TaggedCached", PyList({}), PyStr(<<"p", "{x}">>))
TagPrefixDecorator == Decorator("TaggedCached", PyList({<<"a">>}), PyStr(<<"p", "{x}">>))

Decorators == {PlainDecorator, TextTagDecorator, ListTagDecorator, PrefixDecorator,
               TagPrefixDecorator}

\* The explicit `tags` arguments of invalidate_cache_by_tags: none, a text, a list.
ExplicitTags == {PyList({}), PyStr(<<"z">>), PyStr(<<"a">>), PyStr(<<"t", "u">>),
                 PyList({<<"a">>, <<"z">>}), PyList({<<"b", "{x}">>})}


\* bool(obj) of None, a text or a collection.
Truthy(obj) ==
    IF obj = None THEN FALSE
    ELSE IF obj.kind = "str" THEN Len(obj.s) > 0
    ELSE obj.items # {}

\* The dotted identifier of a function that is not bound to a scope.
get_function_path(function, scope) == function.path

\* force_text(template).format(**call_args)
RECURSIVE str_format(_, _)
str_format(template, call_args) ==
    IF Len(template) = 0 THEN <<>>
    ELSE (IF Head(template) = "{x}" THEN call_args["x"] ELSE <<Head(template)>>)
         \o str_format(Tail(template), call_args)

\* _format of a text template or of a list/tuple/set of text templates.
Cached_format(template, meta) ==
    IF template.kind = "str"
    THEN PyStr(str_format(template.s, meta.call_args))
    ELSE PyList({str_format(t, meta.call_args) : t \in template.items})

\* collect_meta of a call that gives every parameter positionally and is not
\* bound to an instance or class: diff_count is 0 and no default is merged.
collect_meta(d, args) ==
    [args |-> args,
     kwargs |-> EmptyDict,
     returned_value |-> NOT_SET,
     call_args |-> [n \in {d.function.args[i] : i \in 1..Len(args)} |->
                       args[CHOOSE i \in 1..Len(args) : d.function.args[i] = n]]]

\* The default algorithm, scope None and no keyword arguments.
Cached_create_cache_key(d, args) ==
    create_cache_key(CACHE_KEY_DELIMITER, <<get_function_path(d.function, None)>> \o args)

Cached_generate_cache_key(d, meta) == Cached_create_cache_key(d, meta.args)

TaggedCached_generate_cache_key(d, meta) ==
    LET cache_key == Cached_generate_cache_key(d, meta)
    IN  IF Truthy(d.prefix)
        THEN create_cache_key(CACHE_KEY_DELIMITER,
                              <<Cached_format(d.prefix, meta).s, cache_key>>)
        ELSE cache_key

generate_cache_key(d, meta) ==
    IF d.cls = "TaggedCached"
    THEN TaggedCached_generate_cache_key(d, meta)
    ELSE Cached_generate_cache_key(d, meta)

\* cache_instance.get(cache_key, NOT_FOUND): the proxy's get for TaggedCached.
get_cached_value(c, d, cache_key) ==
    IF d.cls = "TaggedCached"
    THEN Proxy_get(c, cache_key, NOT_FOUND)
    ELSE backend_get(c, cache_key, NOT_FOUND)

\* The tags TaggedCached.set_cached_value hands to the proxy's set.
TaggedCached_tags(d, meta) ==
    LET tags == Cached_format(d.tags, meta)
    IN  IF Truthy(d.prefix)
        THEN PyList(PyIter(tags) \cup {Cached_format(d.prefix, meta).s})
        ELSE tags

\* set_cached_value that keeps a value already stored under the key.
set_cached_value_first_wins(c, d, cache_key, meta, stamps) ==
    IF cache_key \in DOMAIN c THEN c
    ELSE backend_set(c, cache_key, meta.returned_value)

\* set_cached_value that writes nothing.
set_cached_value_skipped(c, d, cache_key, meta, stamps) == c

\* The backend after set_cached_value.
set_cached_value(c, d, cache_key, meta, stamps) ==
    IF d.cls = "TaggedCached"
    THEN backend_set_many(c, make_value(c, cache_key, meta.returned_value,
                                        TaggedCached_tags(d, meta), stamps))
    ELSE backend_set(c, cache_key, meta.returned_value)

\* __call__ that stores the failure of the wrapped function as its value.
Cached_call_storing_failure(c, d, args, outcome, stamps) ==
    LET callable_meta == collect_meta(d, args)
        cache_key     == generate_cache_key(d, callable_meta)
        cached_value  == get_cached_value(c, d, cache_key)
        done          == [callable_meta EXCEPT !.returned_value = outcome]
    IN  IF cached_value = NOT_FOUND
        THEN [cache |-> set_cached_value(c, d, cache_key, done, stamps),
              key |-> cache_key, executed |-> TRUE,
              raised |-> outcome = Raise, result |-> outcome]
        ELSE [cache |-> c, key |-> cache_key, executed |-> FALSE,
              raised |-> FALSE, result |-> cached_value]

\* __call__: the backend after the call, whether the wrapped function was run,
\* and what reaches the caller.
Cached_call(c, d, args, outcome, stamps) ==
    LET callable_meta == collect_meta(d, args)
        cache_key     == generate_cache_key(d, callable_meta)
        cached_value  == get_cached_value(c, d, cache_key)
        done          == [callable_meta EXCEPT !.returned_value = outcome]
    IN  IF cached_value = NOT_FOUND
        THEN IF outcome = Raise
             THEN [cache |-> c, key |-> cache_key, executed |-> TRUE,
                   raised |-> TRUE, result |-> Raise]
             ELSE [cache |-> set_cached_value(c, d, cache_key, done, stamps),
                   key |-> cache_key, executed |-> TRUE,
                   raised |-> FALSE, result |-> outcome]
        ELSE [cache |-> c, key |-> cache_key, executed |-> FALSE,
              raised |-> FALSE, result |-> cached_value]

\* to_set of invalidate_cache_by_tags.
to_set(obj) == IF obj.kind = "str" THEN {obj.s} ELSE obj.items

\* invalidate_cache_by_tags that does not intersect with the resolved tags.
invalidate_tags_unfiltered(d, tags, meta) ==
    IF ~Truthy(tags) THEN to_set(Cached_format(d.tags, meta))
    ELSE to_set(Cached_format(tags, meta))

\* The tags invalidate_cache_by_tags hands to the proxy's invalidate.
invalidate_tags(d, tags, meta) ==
    LET all_tags == to_set(Cached_format(d.tags, meta))
    IN  IF ~Truthy(tags) THEN all_tags
        ELSE LET explicit == to_set(Cached_format(tags, meta))
             IN  IF all_tags # {} THEN explicit \cap all_tags ELSE explicit

\* The prefixes handed to the module-level invalidate_cache_prefix: the ones
\* the decorator's prefix template resolves to.
ModulePrefixes ==
    IF Truthy(deco.prefix)
    THEN {Cached_format(deco.prefix, collect_meta(deco, <<x>>)).s : x \in ArgValues}
    ELSE {}

SpecDecoInit ==
    /\ InitGlobals
    /\ LAZY_MODE = FALSE
    /\ cache = EmptyDict
    /\ now = 0
    /\ ret = [op |-> "init"]
    /\ deco \in Decorators

Range(f) == {f[k] : k \in DOMAIN f}

Call(x, outcome) ==
    LET tags == IF deco.cls = "TaggedCached"
                THEN TaggedCached_tags(deco, collect_meta(deco, <<x>>))
                ELSE PyList({})
    IN  \E stamps \in [MissedTags(cache, tags) -> now..MaxTime] :
            LET r == Cached_call(cache, deco, <<x>>, outcome, stamps)
            IN  /\ \A tk \in DOMAIN stamps : get_timestamp(stamps[tk])
                /\ cache' = r.cache
                /\ now' = IF r.executed /\ ~r.raised
                          THEN Max({now} \cup Range(stamps)) ELSE now
                /\ ret' = [op |-> "call", x |-> x, executed |-> r.executed,
                           raised |-> r.raised, result |-> r.result]
                /\ UNCHANGED <<Globals, Registry, local, deco>>

InvalidateCacheByArgs(x) ==
    LET callable_meta == collect_meta(deco, <<x>>)
        cache_key     == generate_cache_key(deco, callable_meta)
    IN  /\ cache' = backend_delete(cache, cache_key)
        /\ ret' = [op |-> "invalidate_cache_by_args", x |-> x]
        /\ UNCHANGED <<Globals, Registry, local, deco, now>>

InvalidateCacheByTags(tags, x) ==
    /\ deco.cls = "TaggedCached"
    /\ IF ~Truthy(deco.tags)
       THEN /\ ret' = [op |-> "invalidate_cache_by_tags", x |-> x, tags |-> tags,
                       raised |-> TRUE, result |-> ValueError]
            /\ UNCHANGED <<Globals, Registry, local, deco, cache, now>>
       ELSE \E ts \in now..MaxTime :
            LET names == PyList(invalidate_tags(deco, tags, collect_meta(deco, <<x>>)))
            IN  /\ get_timestamp(ts)
                /\ cache' = Proxy_invalidate(cache, names, ts)
                /\ now' = ts
                /\ ret' = [op |-> "invalidate_cache_by_tags", x |-> x, tags |-> tags,
                           raised |-> FALSE]
                /\ UNCHANGED <<Globals, Registry, local, deco>>

InvalidateCacheByPrefix(x) ==
    /\ deco.cls = "TaggedCached"
    /\ IF ~Truthy(deco.prefix)
       THEN /\ ret' = [op |-> "invalidate_cache_by_prefix", x |-> x,
                       raised |-> TRUE, result |-> ValueError]
            /\ UNCHANGED <<Globals, Registry, local, deco, cache, now>>
       ELSE \E ts \in now..MaxTime :
            LET prefix == Cached_format(deco.prefix, collect_meta(deco, <<x>>)).s
            IN  /\ get_timestamp(ts)
                /\ cache' = Proxy_invalidate(cache, PyList({prefix}), ts)
                /\ now' = ts
                /\ ret' = [op |-> "invalidate_cache_by_prefix", x |-> x,
                           raised |-> FALSE, prefix |-> prefix]
                /\ UNCHANGED <<Globals, Registry, local, deco>>

\* The module-level invalidate_cache_prefix(prefix, cache_instance).
InvalidateCachePrefix(prefix) ==
    \E ts \in now..MaxTime :
        LET tags == PyList({prefix})
        IN  /\ get_timestamp(ts)
            /\ cache' = Proxy_invalidate(cache, tags, ts)
            /\ now' = ts
            /\ ret' = [op |-> "invalidate_cache_prefix", raised |-> FALSE,
                       prefix |-> prefix]
            /\ UNCHANGED <<Globals, Registry, local, deco>>

SpecDecoNext ==
    \/ \E x \in ArgValues, outcome \in Outcomes(deco) : Call(x, outcome)
    \/ \E x \in ArgValues : InvalidateCacheByArgs(x)
    \/ \E tags \in ExplicitTags, x \in ArgValues : InvalidateCacheByTags(tags, x)
    \/ \E x \in ArgValues : InvalidateCacheByPrefix(x)
    \/ \E prefix \in ModulePrefixes : InvalidateCachePrefix(prefix)

SpecDeco == SpecDecoInit /\ [][SpecDecoNext]_vars

(***************************************************************************)
(* Claims about the decorators, checked under SpecDeco.                    *)
(***************************************************************************)
\* The key of the decorator's entry for the call f(x).
KeyOfCall(x) == generate_cache_key(deco, collect_meta(deco, <<x>>))

C4_FailedCallWritesNothing ==
    [][ (ret'.op = "call" /\ ret'.raised) =>
            (ret'.executed /\ cache' = cache /\ ret'.result = Raise)
      ]_vars

\* The wrapped function of a tag/prefix-aware decorator has raised on a miss,
\* over a backend that holds entries.
C4_Witness ==
    /\ deco.cls = "TaggedCached"
    /\ ret.op = "call" /\ ret.raised
    /\ DOMAIN cache # {}

\* C5 (as stated): invalidate_cache_by_tags() with no explicit tags and the
\* arguments A of a cached call bumps the tag keys the write path stamped on
\* A's entry from the tag template (the same set of tag names on both paths),
\* and with a timestamp that is none of the snapshot's the entry then reads as
\* a miss, so that the next call runs the wrapped function again.
C5_InvalidateByTagsCoversWritePath ==
    [][ (ret'.op = "invalidate_cache_by_tags" /\ ~ret'.raised /\ ~Truthy(ret'.tags)
         /\ KeyOfCall(ret'.x) \in DOMAIN cache) =>
            LET meta    == collect_meta(deco, <<ret'.x>>)
                key     == KeyOfCall(ret'.x)
                prefix  == IF Truthy(deco.prefix)
                           THEN {TagKey(Cached_format(deco.prefix, meta).s)} ELSE {}
                stamped == DOMAIN cache[key].tags \ prefix
                bumped  == {TagKey(t) : t \in invalidate_tags(deco, ret'.tags, meta)}
                fresh   == \A tk \in bumped : cache'[tk] \notin Range(cache[key].tags)
            IN  /\ bumped = stamped
                /\ fresh => get_cached_value(cache', deco, key) = NOT_FOUND
      ]_vars

\* text starts with head.
StartsWith(text, head) ==
    Len(text) >= Len(head) /\ SubSeq(text, 1, Len(head)) = head

\* C6 (as stated): every entry of a decorator with a prefix template has the
\* call's resolved prefix in its snapshot and at the head of its key; after
\* invalidate_cache_by_prefix or invalidate_cache_prefix for a prefix P, the
\* entries whose prefix resolved to P read as a miss and the entries whose
\* prefix resolved to another value read as before.
C6_PrefixInvalidation ==
    [][ (ret'.op \in {"invalidate_cache_by_prefix", "invalidate_cache_prefix"}
         /\ ~ret'.raised /\ Truthy(deco.prefix)) =>
            \A x \in ArgValues :
                LET key    == KeyOfCall(x)
                    prefix == Cached_format(deco.prefix, collect_meta(deco, <<x>>)).s
                IN  key \in DOMAIN cache =>
                        /\ TagKey(prefix) \in DOMAIN cache[key].tags
                        /\ StartsWith(key, prefix \o CACHE_KEY_DELIMITER)
                        /\ IF prefix = ret'.prefix
                           THEN get_cached_value(cache', deco, key) = NOT_FOUND
                           ELSE get_cached_value(cache', deco, key)
                                    = get_cached_value(cache, deco, key)
      ]_vars

\* C7: invalidate_cache_by_tags with explicit tags changes no backend key but
\* the tag keys of the tags that are both in the explicit argument and in the
\* call's resolved tag set; with a disjoint argument it changes nothing, and
\* every entry reads as before; on a decorator without a tag template it fails
\* and changes nothing.
C7_ExplicitTagsAreIntersected ==
    [][ ret'.op = "invalidate_cache_by_tags" =>
            IF ~Truthy(deco.tags)
            THEN ret'.raised /\ ret'.result = ValueError /\ cache' = cache
            ELSE LET meta     == collect_meta(deco, <<ret'.x>>)
                     resolved == to_set(Cached_format(deco.tags, meta))
                     explicit == to_set(Cached_format(ret'.tags, meta))
                     both     == {TagKey(t) : t \in explicit \cap resolved}
                     changed  == {k \in DOMAIN cache' :
                                      k \notin DOMAIN cache \/ cache'[k] # cache[k]}
                 IN  /\ ~ret'.raised
                     /\ DOMAIN cache \subseteq DOMAIN cache'
                     /\ Truthy(ret'.tags) => changed \subseteq both
                     /\ (Truthy(ret'.tags) /\ explicit \cap resolved = {}) =>
                            /\ cache' = cache
                            /\ \A x \in ArgValues :
                                   get_cached_value(cache', deco, KeyOfCall(x))
                                       = get_cached_value(cache, deco, KeyOfCall(x))
      ]_vars

\* invalidate_cache_by_tags has run with explicit tags disjoint from the
\* resolved tags of a call whose entry is cached and valid.
C7_Witness ==
    /\ ret.op = "invalidate_cache_by_tags" /\ ~ret.raised /\ Truthy(ret.tags)
    /\ to_set(Cached_format(ret.tags, collect_meta(deco, <<ret.x>>)))
           \cap to_set(Cached_format(deco.tags, collect_meta(deco, <<ret.x>>))) = {}
    /\ KeyOfCall(ret.x) \in DOMAIN cache
    /\ get_cached_value(cache, deco, KeyOfCall(ret.x)) # NOT_FOUND

(***************************************************************************)
(* Call metadata: functions with several parameters and declared defaults, *)
(* called with positional and keyword arguments, through a decorator that  *)
(* may have been retrieved as an attribute of an instance or of a class.   *)
(* Argument values, instances and classes are opaque objects.              *)
(***************************************************************************)
TypeError == [exc |-> "TypeError"]

\* force_text of an opaque object: its text rendering.
force_text(obj) == <<obj.obj>>

\* A tuple, told from None.
PyTuple(items) == [tuple |-> items]

\* The wrapped functions: dotted path, inspect.getargspec(function).args and
\* .defaults (None when no parameter declares a default).
Foo == [path |-> <<"f", "o", "o">>, args |-> <<"x", "y">>, defaults |-> None]
Fabc == [path |-> <<"f">>, args |-> <<"a", "b", "c">>,
         defaults |-> PyTuple(<<PyObj("5"), PyObj("6")>>)]
Method == [path |-> <<"K", ".", "m">>, args |-> <<"self", "x">>, defaults |-> None]

Functions == {Foo, Fabc, Method}

\* The values a caller passes to the function.
CallValues(function) ==
    IF function = Fabc THEN {PyObj("0")} ELSE {PyObj("1"), PyObj("2")}

\* The instances and the class a decorated method is retrieved through.
Instances == {PyObj("A"), PyObj("B")}
Klass == PyObj("K")

\* A decorator as Cached.__init__ leaves it: no instance, no class recorded.
BoundDecorator(function) ==
    [cls |-> "Cached", function |-> function, cache_key |-> None,
     tags |-> PyList({}), prefix |-> None, _cache_instance |-> Backend,
     _cache_alias |-> DEFAULT_CACHE_ALIAS, instance |-> None, klass |-> None,
     _scope |-> None]

\* The scope property: self.instance or self.klass or self._scope.
scope(d) ==
    IF d.instance # None THEN d.instance
    ELSE IF d.klass # None THEN d.klass
    ELSE d._scope

\* update_arguments: the positional arguments with the bound object in front.
update_arguments(d, args) ==
    IF d.instance # None THEN <<d.instance>> \o args
    ELSE IF d.klass # None THEN <<d.klass>> \o args
    ELSE args

\* __get__ that keeps the first instance it recorded.
Cached_get_keeping_first(d, instance, klass) ==
    IF instance # None /\ d.instance = None THEN [d EXCEPT !.instance = instance]
    ELSE d

\* __get__ on a decorator that is not a property: the decorator afterwards.
Cached_get(d, instance, klass) ==
    IF instance # None THEN [d EXCEPT !.instance = instance]
    ELSE IF klass # None THEN [d EXCEPT !.klass = klass]
    ELSE d

\* seq[-n:] of a Python sequence, n > 0.
LastN(seq, n) ==
    IF n >= Len(seq) THEN seq ELSE SubSeq(seq, Len(seq) - n + 1, Len(seq))

\* dict(zip(names, values)): pairs by position, up to the shorter sequence.
Zip(names, values) ==
    LET n == IF Len(names) < Len(values) THEN Len(names) ELSE Len(values)
    IN  [name \in {names[i] : i \in 1..n} |->
            values[CHOOSE i \in 1..n : names[i] = name]]

\* Whether parameter i of the function declares a default, and that default.
HasDefault(function, i) ==
    /\ function.defaults # None
    /\ i > Len(function.args) - Len(function.defaults.tuple)
DefaultOf(function, i) ==
    function.defaults.tuple[i - (Len(function.args) - Len(function.defaults.tuple))]

\* The parameters as the function itself binds them (inspect.getcallargs and
\* the call function(*args, **kwargs)): positional values in order, keyword
\* values by name, the declared default for a parameter given neither.
Bind(function, args, kwargs) ==
    [name \in {function.args[i] : i \in 1..Len(function.args)} |->
        LET i == CHOOSE j \in 1..Len(function.args) : function.args[j] = name
        IN  IF i <= Len(args) THEN args[i]
            ELSE IF name \in DOMAIN kwargs THEN kwargs[name]
            ELSE DefaultOf(function, i)]

\* collect_meta of a call with positional and keyword arguments: the call
\* metadata, or the TypeError of subscripting arg_spec.defaults when it is None.
Cached_collect_meta(d, args, kwargs) ==
    LET bound      == update_arguments(d, args)
        function   == d.function
        diff_count == Len(function.args) - Len(bound)
    IN  IF diff_count > 0 /\ function.defaults = None
        THEN [raised |-> TRUE, exc |-> TypeError]
        ELSE LET default_kwargs ==
                     IF diff_count > 0
                     THEN Zip(LastN(function.args, diff_count),
                              LastN(function.defaults.tuple, diff_count))
                     ELSE EmptyDict
             IN  [raised |-> FALSE,
                  args |-> bound,
                  kwargs |-> DictUpdate(default_kwargs, kwargs),
                  returned_value |-> NOT_SET,
                  call_args |-> Bind(function, bound, kwargs)]

\* sorted(kwargs): the parameter names of the model in lexicographic order.
NameOrder == <<"a", "b", "c", "self", "x", "y">>
RECURSIVE SortedFrom(_, _)
SortedFrom(names, i) ==
    IF i > Len(NameOrder) THEN <<>>
    ELSE (IF NameOrder[i] \in names THEN <<NameOrder[i]>> ELSE <<>>)
         \o SortedFrom(names, i + 1)
Sorted(names) == SortedFrom(names, 1)

\* list.remove(item), ValueError swallowed: the list without the first
\* occurrence of the item.
RECURSIVE Remove(_, _)
Remove(list, item) ==
    IF Len(list) = 0 THEN <<>>
    ELSE IF Head(list) = item THEN Tail(list)
    ELSE <<Head(list)>> \o Remove(Tail(list), item)

\* The default algorithm, create_cache_key(*meta.args, **meta.kwargs).
Cached_create_cache_key_kw(d, args, kwargs) ==
    LET current  == scope(d)
        prefix   == get_function_path(d.function, current)
        unscoped == IF current # None THEN Remove(args, current) ELSE args
        names    == Sorted(DOMAIN kwargs)
        values   == unscoped \o [i \in 1..Len(names) |-> kwargs[names[i]]]
    IN  create_cache_key(CACHE_KEY_DELIMITER,
                         <<prefix>> \o [i \in 1..Len(values) |-> force_text(values[i])])

\* __call__ with positional and keyword arguments on backend c: the backend
\* afterwards, the key, the positional arguments of the call metadata, whether
\* the wrapped function was run and the parameter values it was run with.
Cached_call_kw(c, d, args, kwargs, outcome) ==
    LET callable_meta == Cached_collect_meta(d, args, kwargs)
    IN  IF callable_meta.raised
        THEN [cache |-> c, raised |-> TRUE, result |-> callable_meta.exc]
        ELSE LET cache_key    == Cached_create_cache_key_kw(d, callable_meta.args,
                                                            callable_meta.kwargs)
                 cached_value == backend_get(c, cache_key, NOT_FOUND)
             IN  IF cached_value = NOT_FOUND
                 THEN [cache |-> backend_set(c, cache_key, outcome),
                       raised |-> FALSE, key |-> cache_key, executed |-> TRUE,
                       args |-> callable_meta.args,
                       received |-> Bind(d.function, callable_meta.args,
                                         callable_meta.kwargs),
                       result |-> outcome]
                 ELSE [cache |-> c, raised |-> FALSE, key |-> cache_key,
                       args |-> callable_meta.args,
                       executed |-> FALSE, result |-> cached_value]

\* The parameters the caller has to supply: all of them, or all but the first
\* when the decorator puts a bound object in front.
CallerParams(d) ==
    IF d.instance # None \/ d.klass # None THEN Tail(d.function.args)
    ELSE d.function.args

\* The calls Python accepts for the function: the first k parameters given
\* positionally, some of the others by keyword, every other one having a
\* declared default.
CallsOf(d) ==
    LET params == CallerParams(d)
        off    == Len(d.function.args) - Len(params)
        rest(k) == {params[i] : i \in (k + 1)..Len(params)}
        shapes == {sh \in (0..Len(params)) \X SUBSET rest(0) :
                     /\ sh[2] \subseteq rest(sh[1])
                     /\ \A i \in (sh[1] + 1)..Len(params) :
                            params[i] \in sh[2] \/ HasDefault(d.function, i + off)}
    IN  UNION {{[args |-> a, kwargs |-> kw] :
                    a \in [1..sh[1] -> CallValues(d.function)],
                    kw \in [sh[2] -> CallValues(d.function)]} : sh \in shapes}

SpecArgsInit ==
    /\ InitGlobals
    /\ LAZY_MODE = FALSE
    /\ cache = EmptyDict
    /\ now = 0
    /\ ret = [op |-> "init", retrieved |-> None]
    /\ deco \in {BoundDecorator(function) : function \in Functions}

\* The decorated method retrieved as an attribute: of an instance
\* (__get__(instance, klass)) or of the class (__get__(None, klass)).
GetAttr(instance, klass) ==
    /\ deco.function = Method
    /\ deco' = Cached_get(deco, instance, klass)
    /\ ret' = [op |-> "get", retrieved |-> IF instance # None THEN instance ELSE klass]
    /\ UNCHANGED <<Globals, Registry, local, cache, now>>

\* The decorator called with positional and keyword arguments.
CallKw(args, kwargs, outcome) ==
    LET r == Cached_call_kw(cache, deco, args, kwargs, outcome)
    IN  /\ cache' = r.cache
        /\ ret' = [op |-> "call", retrieved |-> ret.retrieved, args |-> args,
                   kwargs |-> kwargs, call |-> r]
        /\ UNCHANGED <<Globals, Registry, local, deco, now>>

SpecArgsNext ==
    \/ \E instance \in Instances \cup {None} : GetAttr(instance, Klass)
    \/ \E call \in CallsOf(deco) : CallKw(call.args, call.kwargs, PyObj("v"))

SpecArgs == SpecArgsInit /\ [][SpecArgsNext]_vars

(***************************************************************************)
(* Claims about call metadata, checked under SpecArgs.                     *)
(***************************************************************************)
\* C11 (as stated): a call of the unbound foo(x, y), which declares no default,
\* with x and y given positionally or y (or both) given by keyword, does not
\* fail and resolves to the key path:x:y of the values given for x and y.
C11_KeywordCallResolvesToKey ==
    (ret.op = "call" /\ deco.function = Foo) =>
        /\ ~ret.call.raised
        /\ ret.call.key =
               LET given == Bind(Foo, ret.args, ret.kwargs)
               IN  create_cache_key(CACHE_KEY_DELIMITER,
                       <<Foo.path, force_text(given["x"]), force_text(given["y"])>>)

\* C16 (as stated): on a miss the wrapped function runs with every parameter
\* at the value the caller gave it, positionally or by keyword, or else at the
\* parameter's own declared default.
C16_FunctionRunsWithCallersArguments ==
    (/\ ret.op = "call"
     /\ ~ret.call.raised
     /\ ret.call.executed) =>
        ret.call.received =
            Bind(deco.function, update_arguments(deco, ret.args), ret.kwargs)

\* C17 (as stated): the object put in front of a call's positional arguments
\* is the one of the most recent retrieval of the decorator: the instance it
\* was retrieved through, or the class when it was retrieved through the
\* class, also after an earlier retrieval through an instance.
C17_ScopeOfLatestRetrieval ==
    (/\ ret.op = "call"
     /\ ret.retrieved # None
     /\ ~ret.call.raised) =>
        /\ Len(ret.call.args) = Len(ret.args) + 1
        /\ ret.call.args[1] = ret.retrieved

(***************************************************************************)
(* The backend registry and the decorator's backend resolution, with two   *)
(* threads.  A backend is known by its handle; stores[h] is what backend h *)
(* holds.                                                                  *)
(***************************************************************************)
Threads == {"T1", "T2"}

Aliases == {DEFAULT_CACHE_ALIAS, "other"}

\* The backends the application installs with registry[alias] = b.
InjectedBackends == {[injected |-> "b1"], [injected |-> "b2"]}

\* What the host application resolves an alias to: django.core.cache.cache is
\* one module attribute for every thread, django.core.cache.caches[alias] is
\* the calling thread's own instance.
HostBackend(t, alias) ==
    IF alias = DEFAULT_CACHE_ALIAS
    THEN [host |-> alias, thread |-> "any"]
    ELSE [host |-> alias, thread |-> t]

Handles == InjectedBackends \cup {HostBackend(t, a) : t \in Threads, a \in Aliases}

\* CacheHandler.__getitem__ on thread t: the registry after the read and the
\* backend returned.
CacheHandler_getitem(cs, t, alias) ==
    IF alias \in DOMAIN cs[t]
    THEN [caches |-> cs, cache |-> cs[t][alias]]
    ELSE LET resolved == HostBackend(t, alias)
         IN  [caches |-> [cs EXCEPT ![t] = DictUpdate(@, alias :> resolved)],
              cache |-> resolved]

\* CacheHandler.__setitem__ on thread t.
CacheHandler_setitem(cs, t, key, value) ==
    [cs EXCEPT ![t] = DictUpdate(@, key :> value)]

\* The cache_instance property read on thread t (Cached._get_cache_instance,
\* TaggedCached.cache_instance; the proxy wraps the handle it is given): the
\* decorator and the registry after the read, and the backend returned.
cache_instance(lazy, d, cs, t) ==
    IF d._cache_instance # None
    THEN [deco |-> d, caches |-> cs, cache |-> d._cache_instance]
    ELSE LET r == CacheHandler_getitem(cs, t, d._cache_alias)
         IN  IF lazy
             THEN [deco |-> d, caches |-> r.caches, cache |-> r.cache]
             ELSE [deco |-> [d EXCEPT !._cache_instance = r.cache],
                   caches |-> r.caches, cache |-> r.cache]

\* Decorators configured without a backend instance.
RegistryDecorators ==
    {[d EXCEPT !._cache_instance = None, !._cache_alias = a] :
        d \in {PlainDecorator, PrefixDecorator}, a \in Aliases}

SpecRegInit ==
    /\ CACHE_KEY_DELIMITER = <<":">>
    /\ TAG_KEY_PREFIX = <<"t", "a", "g">>
    /\ LAZY_MODE \in BOOLEAN
    /\ caches = [t \in Threads |-> EmptyDict]
    /\ stores = [h \in Handles |-> EmptyDict]
    /\ local = EmptyDict
    /\ cache = EmptyDict
    /\ now = 0
    /\ ret = [op |-> "init"]
    /\ deco \in RegistryDecorators

\* registry[alias] = backend on thread t.
RegistrySet(t, alias, backend) ==
    /\ caches' = CacheHandler_setitem(caches, t, alias, backend)
    /\ ret' = [op |-> "registry_set", thread |-> t, alias |-> alias,
               backend |-> backend]
    /\ UNCHANGED <<CACHE_KEY_DELIMITER, TAG_KEY_PREFIX, LAZY_MODE, local, stores, cache, now, deco>>

\* registry[alias] on thread t.
RegistryGet(t, alias) ==
    LET r == CacheHandler_getitem(caches, t, alias)
    IN  /\ caches' = r.caches
        /\ ret' = [op |-> "registry_get", thread |-> t, alias |-> alias,
                   backend |-> r.cache]
        /\ UNCHANGED <<CACHE_KEY_DELIMITER, TAG_KEY_PREFIX, LAZY_MODE, local, stores, cache, now,
                       deco>>

\* The decorated function called on thread t; a tag missed at the write is
\* stamped with the clock's reading, `now`.
ThreadCall(t, x, outcome) ==
    LET g      == cache_instance(LAZY_MODE, deco, caches, t)
        tags   == IF g.deco.cls = "TaggedCached"
                  THEN TaggedCached_tags(g.deco, collect_meta(g.deco, <<x>>))
                  ELSE PyList({})
        stamps == [tk \in MissedTags(stores[g.cache], tags) |-> now]
        r      == Cached_call(stores[g.cache], g.deco, <<x>>, outcome, stamps)
    IN  /\ deco' = g.deco
        /\ caches' = g.caches
        /\ stores' = [stores EXCEPT ![g.cache] = r.cache]
        /\ ret' = [op |-> "call", thread |-> t, backend |-> g.cache,
                   executed |-> r.executed]
        /\ UNCHANGED <<CACHE_KEY_DELIMITER, TAG_KEY_PREFIX, LAZY_MODE, local, cache, now>>

\* invalidate_cache_by_args called on thread t.
ThreadInvalidate(t, x) ==
    LET g         == cache_instance(LAZY_MODE, deco, caches, t)
        cache_key == generate_cache_key(g.deco, collect_meta(g.deco, <<x>>))
    IN  /\ deco' = g.deco
        /\ caches' = g.caches
        /\ stores' = [stores EXCEPT ![g.cache] = backend_delete(@, cache_key)]
        /\ ret' = [op |-> "invalidate_cache_by_args", thread |-> t,
                   backend |-> g.cache]
        /\ UNCHANGED <<CACHE_KEY_DELIMITER, TAG_KEY_PREFIX, LAZY_MODE, local, cache, now>>

SpecRegNext ==
    \/ \E t \in Threads, b \in InjectedBackends : RegistrySet(t, deco._cache_alias, b)
    \/ \E t \in Threads : RegistryGet(t, deco._cache_alias)
    \/ \E t \in Threads : ThreadCall(t, <<"0">>, PyObj("v"))
    \/ \E t \in Threads : ThreadInvalidate(t, <<"0">>)

SpecReg == SpecRegInit /\ [][SpecRegNext]_vars

(***************************************************************************)
(* Claims about the registry, checked under SpecReg.                       *)
(***************************************************************************)
\* C10 (as stated): a call or an invalidation of a decorator configured without
\* a backend instance, running on thread T, goes to the backend in T's own
\* registry slot of the decorator's alias, whatever ran before on other
\* threads; a registry slot of thread T changes in T's operations only, and a
\* read on T returns what T's slot holds (what T installed, once T has).
C10_BackendOfOwnThread ==
    [][ /\ ret'.op \in {"call", "invalidate_cache_by_args"} =>
               ret'.backend =
                   CacheHandler_getitem(caches, ret'.thread, deco._cache_alias).cache
        /\ \A t \in Threads : caches'[t] # caches[t] => ret'.thread = t
        /\ ret'.op = "registry_get" =>
               /\ ret'.backend = caches'[ret'.thread][ret'.alias]
               /\ ret'.alias \in DOMAIN caches[ret'.thread] =>
                      ret'.backend = caches[ret'.thread][ret'.alias]
      ]_vars

(***************************************************************************)
(* The proxy over a backend that also holds values written without the     *)
(* proxy (backend.set called directly).                                    *)
(***************************************************************************)
AttributeError == [exc |-> "AttributeError"]

\* The values written without the proxy, by their Python type: a mapping
\* without a `tags` field, and values that are not mappings.
RawValues == {[raw |-> "dict"], [raw |-> "int"], [raw |-> "str"], [raw |-> "list"]}

\* Whether a stored value has a .get method (is a mapping): an entry written by
\* the proxy, or a raw mapping.
HasGet(value) == IF "raw" \in DOMAIN value THEN value.raw = "dict" ELSE TRUE

\* TaggedCacheProxy.get over any stored value: what it returns, or the
\* AttributeError raised by value.get on a value that has no such method.
TaggedCacheProxy_get(c, key, default) ==
    LET value == backend_get(c, key, NOT_FOUND)
    IN  IF value = NOT_FOUND THEN [raised |-> FALSE, result |-> default]
        ELSE IF ~HasGet(value) THEN [raised |-> TRUE, result |-> AttributeError]
        ELSE IF "tags" \notin DOMAIN value THEN [raised |-> FALSE, result |-> value]
        ELSE [raised |-> FALSE, result |-> Proxy_get(c, key, default)]

\* backend.set(key, value) without the proxy.
RawSet(key, value) ==
    /\ cache' = backend_set(cache, key, value)
    /\ ret' = [op |-> "raw_set", key |-> key, value |-> value]
    /\ UNCHANGED <<Globals, Registry, local, deco, now>>

\* proxy.get(key, default).
GetAny(key, default) ==
    LET r == TaggedCacheProxy_get(cache, key, default)
    IN  /\ ret' = [op |-> "get", key |-> key, default |-> default,
                   raised |-> r.raised, result |-> r.result]
        /\ UNCHANGED <<Globals, Registry, local, deco, cache, now>>

SpecRawNext ==
    \/ \E key \in PrimaryKeys, value \in RawValues : RawSet(key, value)
    \/ \E key \in PrimaryKeys, value \in Values, tags \in TagLists : Set(key, value, tags)
    \/ \E key \in PrimaryKeys : GetAny(key, Default)
    \/ \E tags \in TagLists : Invalidate(tags)

SpecRaw == Init /\ [][SpecRawNext]_vars

\* C12 (as stated): get of a key whose stored value was written without the
\* proxy and has no `tags` field returns that value, whatever its type; it
\* does not raise and does not return the default.
C12_RawValueReturnedUnchanged ==
    (/\ ret.op = "get"
     /\ ret.key \in DOMAIN cache
     /\ "tags" \notin DOMAIN cache[ret.key]) =>
        /\ ~ret.raised
        /\ ret.result = cache[ret.key]

(***************************************************************************)
(* Two callers of the plain decorator on one backend.  __call__ takes no   *)
(* lock: the read, the run of the wrapped function and the write of a call *)
(* are separate steps, and the steps of two callers interleave.            *)
(***************************************************************************)
Idle(t) == local[t].pc \in {"idle", "done"}

\* __call__ up to the read: collect_meta, generate_cache_key, get_cached_value.
CallRead(t, x) ==
    LET callable_meta == collect_meta(deco, <<x>>)
        cache_key     == generate_cache_key(deco, callable_meta)
        cached_value  == get_cached_value(cache, deco, cache_key)
    IN  /\ Idle(t)
        /\ IF cached_value = NOT_FOUND
           THEN local' = DictUpdate(local, t :> [pc |-> "run", key |-> cache_key,
                                                 meta |-> callable_meta])
           ELSE local' = DictUpdate(local, t :> [pc |-> "done", key |-> cache_key,
                                                 executed |-> FALSE,
                                                 result |-> cached_value])
        /\ ret' = [op |-> "read", thread |-> t, key |-> cache_key,
                   miss |-> cached_value = NOT_FOUND]
        /\ UNCHANGED <<Globals, Registry, deco, cache, now>>

\* On a miss: self.function(*callable_meta.args, **callable_meta.kwargs).
CallRun(t, outcome) ==
    /\ local[t].pc = "run"
    /\ IF outcome = Raise
       THEN local' = DictUpdate(local, t :> [pc |-> "done", key |-> local[t].key,
                                             executed |-> TRUE, result |-> Raise])
       ELSE local' = DictUpdate(local,
                        t :> [pc |-> "store", key |-> local[t].key,
                              meta |-> [local[t].meta EXCEPT !.returned_value = outcome]])
    /\ ret' = [op |-> "run", thread |-> t, key |-> local[t].key]
    /\ UNCHANGED <<Globals, Registry, deco, cache, now>>

\* set_cached_value and the return of the computed value.
CallStore(t) ==
    /\ local[t].pc = "store"
    /\ cache' = set_cached_value(cache, deco, local[t].key, local[t].meta, EmptyDict)
    /\ local' = DictUpdate(local, t :> [pc |-> "done", key |-> local[t].key,
                                        executed |-> TRUE,
                                        result |-> local[t].meta.returned_value])
    /\ ret' = [op |-> "store", thread |-> t, key |-> local[t].key,
               value |-> local[t].meta.returned_value]
    /\ UNCHANGED <<Globals, Registry, deco, now>>

SpecRaceInit ==
    /\ CACHE_KEY_DELIMITER = <<":">>
    /\ TAG_KEY_PREFIX = <<"t", "a", "g">>
    /\ caches = EmptyDict
    /\ stores = EmptyDict
    /\ local = [t \in Threads |-> [pc |-> "idle"]]
    /\ LAZY_MODE = FALSE
    /\ cache = EmptyDict
    /\ now = 0
    /\ ret = [op |-> "init"]
    /\ deco = PlainDecorator

SpecRaceNext ==
    \/ \E t \in Threads, x \in ArgValues : CallRead(t, x)
    \/ \E t \in Threads, outcome \in Outcomes(deco) : CallRun(t, outcome)
    \/ \E t \in Threads : CallStore(t)

SpecRace == SpecRaceInit /\ [][SpecRaceNext]_vars

\* C13: nothing makes the computation at-most-once.  Every write of a caller
\* that read a miss goes through, whatever another caller stored under the
\* key in the meantime: after it the key holds that caller's value (the later
\* backend write wins).
C13_LaterWriteWins ==
    ret.op = "store" =>
        /\ ret.key \in DOMAIN cache
        /\ cache[ret.key] = ret.value

\* Both callers read a miss of one key, both ran the wrapped function, both
\* wrote, the values differ and the key holds the value written last.
C13_Witness ==
    /\ \A t \in Threads : local[t].pc = "done" /\ local[t].executed
    /\ local["T1"].key = local["T2"].key
    /\ local["T1"].result # Raise /\ local["T2"].result # Raise
    /\ local["T1"].result # local["T2"].result
    /\ ret.op = "store"
    /\ cache[ret.key] = local[ret.thread].result

(***************************************************************************)
(* The setters of the process-wide key delimiter and tag-key prefix, with  *)
(* the proxy writing and reading under whatever the globals are then.      *)
(***************************************************************************)
\* isinstance(obj, six.string_types)
IsText(obj) == IF "kind" \in DOMAIN obj THEN obj.kind = "str" ELSE FALSE

\* The arguments handed to the setters: a text, None, an int.
DelimiterArgs == {PyStr(<<"-">>), None, PyObj("5")}
PrefixArgs == {PyStr(<<"t">>), None, PyObj("5")}

\* A setter that takes any argument by its text rendering.
setter_unchecked(current, arg) ==
    [raised |-> FALSE,
     value |-> IF IsText(arg) THEN arg.s ELSE <<"5">>]

\* set_cache_key_delimiter / set_tag_key_prefix: the TypeError or the new value
\* of the global.
setter(current, arg) ==
    IF ~IsText(arg) THEN [raised |-> TRUE, value |-> current]
    ELSE [raised |-> FALSE, value |-> arg.s]

SetCacheKeyDelimiter(arg) ==
    LET r == setter(CACHE_KEY_DELIMITER, arg)
    IN  /\ CACHE_KEY_DELIMITER' = r.value
        /\ ret' = [op |-> "set_cache_key_delimiter", arg |-> arg, raised |-> r.raised]
        /\ UNCHANGED <<TAG_KEY_PREFIX, LAZY_MODE, Registry, local, deco, cache, now>>

SetTagKeyPrefix(arg) ==
    LET r == setter(TAG_KEY_PREFIX, arg)
    IN  /\ TAG_KEY_PREFIX' = r.value
        /\ ret' = [op |-> "set_tag_key_prefix", arg |-> arg, raised |-> r.raised]
        /\ UNCHANGED <<CACHE_KEY_DELIMITER, LAZY_MODE, Registry, local, deco, cache, now>>

\* The one tag and key the proxy is used with here.
ConfTags == PyList({<<"a">>})

SpecConfNext ==
    \/ \E arg \in DelimiterArgs : SetCacheKeyDelimiter(arg)
    \/ \E arg \in PrefixArgs : SetTagKeyPrefix(arg)
    \/ \E value \in Values : Set(<<"k">>, value, ConfTags)
    \/ Get(<<"k">>, Default)
    \/ Invalidate(ConfTags)

SpecConf == Init /\ [][SpecConfNext]_vars

\* C14: a setter called with a non-text argument raises and leaves its global
\* as it was; called with a text it sets its own global to that text and
\* changes nothing else, no key of the backend included.  A proxy write or
\* invalidation writes its tag keys under the globals of that moment and
\* leaves every other stored key as it was.
C14_SettersAffectOnlyLaterKeys ==
    [][ /\ ret'.op = "set_cache_key_delimiter" =>
               /\ cache' = cache /\ TAG_KEY_PREFIX' = TAG_KEY_PREFIX
               /\ IF IsText(ret'.arg)
                  THEN ~ret'.raised /\ CACHE_KEY_DELIMITER' = ret'.arg.s
                  ELSE ret'.raised /\ CACHE_KEY_DELIMITER' = CACHE_KEY_DELIMITER
        /\ ret'.op = "set_tag_key_prefix" =>
               /\ cache' = cache /\ CACHE_KEY_DELIMITER' = CACHE_KEY_DELIMITER
               /\ IF IsText(ret'.arg)
                  THEN ~ret'.raised /\ TAG_KEY_PREFIX' = ret'.arg.s
                  ELSE ret'.raised /\ TAG_KEY_PREFIX' = TAG_KEY_PREFIX
        /\ ret'.op \in {"set", "invalidate"} =>
               LET current == {TAG_KEY_PREFIX \o CACHE_KEY_DELIMITER \o name :
                                  name \in PyIter(ret'.tags)}
                   written == {k \in DOMAIN cache' :
                                  k \notin DOMAIN cache \/ cache'[k] # cache[k]}
               IN  /\ written \subseteq current \cup {<<"k">>}
                   /\ \A k \in DOMAIN cache : k \in DOMAIN cache'
      ]_vars

\* After a change of the tag prefix the backend holds the tag's key under the
\* old prefix, still named by the stored entry's snapshot, next to the key
\* built under the new prefix.
C14_Witness ==
    /\ TAG_KEY_PREFIX = <<"t">>
    /\ <<"k">> \in DOMAIN cache
    /\ <<"t", "a", "g", ":", "a">> \in DOMAIN cache[<<"k">>].tags
    /\ <<"t", "a", "g", ":", "a">> \in DOMAIN cache
    /\ <<"t", ":", "a">> \in DOMAIN cache
    /\ ret.op = "invalidate"

(***************************************************************************)
(* A tagged write in two steps, make_value's bulk read and set's bulk      *)
(* write, with invalidations and reads of other callers in between.        *)
(* A writer between its two steps keeps, next to its locals, the tag keys  *)
(* invalidated since its read.                                             *)
(***************************************************************************)
RaceKey == <<"k">>

\* The callers that write.
Writers == {"T1"}

\* proxy.set up to make_value's result: get_many of the tag keys and the
\* timestamps of the missed ones.
WriteRead(t, value, tags) ==
    \E stamps \in [MissedTags(cache, tags) -> now..MaxTime] :
        /\ local[t].pc \in {"idle", "written"}
        /\ \A tk \in DOMAIN stamps : get_timestamp(stamps[tk])
        /\ now' = Max({now} \cup {stamps[tk] : tk \in DOMAIN stamps})
        /\ local' = [local EXCEPT ![t] =
                        [pc |-> "write", tags |-> tags,
                         value_dict |-> make_value(cache, RaceKey, value, tags, stamps),
                         missed |-> MissedTags(cache, tags),
                         raced |-> {}]]
        /\ ret' = [op |-> "make_value", thread |-> t]
        /\ UNCHANGED <<Globals, Registry, deco, cache>>

\* self._cache.set_many(value_dict)
WriteStore(t) ==
    /\ local[t].pc = "write"
    /\ cache' = backend_set_many(cache, local[t].value_dict)
    /\ local' = [local EXCEPT ![t] = [@ EXCEPT !.pc = "written"]]
    /\ ret' = [op |-> "set", thread |-> t]
    /\ UNCHANGED <<Globals, Registry, deco, now>>

\* proxy.invalidate(tags) of another caller.
InvalidateBetween(tags) ==
    \E ts \in now..MaxTime :
        /\ get_timestamp(ts)
        /\ cache' = Proxy_invalidate(cache, tags, ts)
        /\ now' = ts
        /\ local' = [t \in DOMAIN local |->
                        IF local[t].pc = "write"
                        THEN [local[t] EXCEPT
                                 !.raced = @ \cup (TagKeysOf(tags)
                                                   \cap TagKeysOf(local[t].tags))]
                        ELSE local[t]]
        /\ ret' = [op |-> "invalidate", tags |-> tags, ts |-> ts]
        /\ UNCHANGED <<Globals, Registry, deco>>

SpecInterleaveInit ==
    /\ CACHE_KEY_DELIMITER = <<":">>
    /\ TAG_KEY_PREFIX = <<"t", "a", "g">>
    /\ caches = EmptyDict
    /\ stores = EmptyDict
    /\ local = [t \in Writers |-> [pc |-> "idle"]]
    /\ LAZY_MODE = FALSE
    /\ cache = EmptyDict
    /\ now = 0
    /\ ret = [op |-> "init"]
    /\ deco = None

SpecInterleaveNext ==
    \/ \E t \in Writers, value \in Values, tags \in TagLists : WriteRead(t, value, tags)
    \/ \E t \in Writers : WriteStore(t)
    \/ \E tags \in TagLists : InvalidateBetween(tags)
    \/ Get(RaceKey, Default)

SpecInterleave == SpecInterleaveInit /\ [][SpecInterleaveNext]_vars

\* C15 (as stated): when an invalidation of one of a write's tags landed
\* between the write's bulk read and its bulk write, a get of the entry that
\* write stored returns the default, whether the tag key was there at the
\* write's read or was missed by it.
C15_RacedWriteIsStale ==
    \A t \in Writers :
        (/\ ret.op = "get"
         /\ local[t].pc = "written"
         /\ local[t].raced # {}
         /\ cache[RaceKey] = local[t].value_dict[RaceKey]) =>
            ret.result = Default

(***************************************************************************)
(* Two threads using one decorated method through different instances:     *)
(* `instance.m(x)` is the retrieval of the attribute, which returns the    *)
(* one decorator object, and then the call of what was returned.           *)
(***************************************************************************)
SpecBindInit ==
    /\ CACHE_KEY_DELIMITER = <<":">>
    /\ TAG_KEY_PREFIX = <<"t", "a", "g">>
    /\ caches = EmptyDict
    /\ stores = EmptyDict
    /\ local = [t \in Threads |-> [pc |-> "idle"]]
    /\ LAZY_MODE = FALSE
    /\ cache = EmptyDict
    /\ now = 0
    /\ ret = [op |-> "init", retrieved |-> None]
    /\ deco = BoundDecorator(Method)

\* Thread t evaluates `instance.m`: __get__(instance, K).
ThreadGetAttr(t, instance) ==
    /\ local[t].pc = "idle"
    /\ deco' = Cached_get(deco, instance, Klass)
    /\ local' = [local EXCEPT ![t] = [pc |-> "bound", instance |-> instance]]
    /\ ret' = [op |-> "get", thread |-> t, retrieved |-> instance]
    /\ UNCHANGED <<Globals, Registry, cache, now>>

\* Thread t calls what its retrieval returned, with the argument x.
ThreadCallBound(t, x) ==
    LET r == Cached_call_kw(cache, deco, <<x>>, EmptyDict, PyObj("v"))
    IN  /\ local[t].pc = "bound"
        /\ cache' = r.cache
        /\ local' = [local EXCEPT ![t] = [pc |-> "idle"]]
        /\ ret' = [op |-> "call", thread |-> t, through |-> local[t].instance,
                   retrieved |-> ret.retrieved, call |-> r]
        /\ UNCHANGED <<Globals, Registry, deco, now>>

\* The entry of a key dropped from the backend (delete, expiry).
DropKey(key) ==
    /\ key \in DOMAIN cache
    /\ cache' = backend_delete(cache, key)
    /\ ret' = [op |-> "delete", retrieved |-> ret.retrieved]
    /\ UNCHANGED <<Globals, Registry, local, deco, now>>

SpecBindNext ==
    \/ \E t \in Threads, instance \in Instances : ThreadGetAttr(t, instance)
    \/ \E t \in Threads, x \in CallValues(Method) : ThreadCallBound(t, x)
    \/ \E key \in DOMAIN cache : DropKey(key)

SpecBind == SpecBindInit /\ [][SpecBindNext]_vars

\* C18: the bound instance lives on the one decorator object.  A call runs
\* with the instance of the most recent retrieval by any thread in front of
\* its arguments, whichever instance the calling thread retrieved through.
C18_CallRunsWithLatestRetrieval ==
    ret.op = "call" =>
        /\ ~ret.call.raised
        /\ ret.call.args[1] = ret.retrieved
        /\ ret.call.args[1] = deco.instance

\* Thread 1 retrieved the method through A, thread 2 through B, and thread 1's
\* call ran the wrapped function with B as self.
C18_Witness ==
    /\ ret.op = "call"
    /\ ret.thread = "T1"
    /\ ret.through = PyObj("A")
    /\ local["T2"].pc = "bound"
    /\ local["T2"].instance = PyObj("B")
    /\ ret.call.executed
    /\ ret.call.received["self"] = PyObj("B")

====
